---- MODULE Spec2Model ----
(***************************************************************************)
(* A model of tdx-server: the session store behind POST /agents/login, the *)
(* credential gate and the handler of POST /exchange, POST /info, GET      *)
(* /agents/quote, the write-once preset data, and the generic action       *)
(* digest and the SDK handler of universal_signing.rs.                     *)
(***************************************************************************)
EXTENDS Integers, Sequences, FiniteSets, TLC

VARIABLES
    mainPc,           \* main(): "start", "serving" or "exited"
    preset,           \* PRESET_TDX_DATA (OnceLock<PresetTDXData>)
    config,           \* AppState.config
    agents,           \* AgentManager.agents: api key -> Agent
    sessions,         \* AgentSessionManager.sessions: api key -> AgentSession
    user_to_api_key,  \* AgentSessionManager.user_to_api_key
    lock,             \* writer of the RwLock around the session manager (0: free)
    now,              \* SystemTime::now() in seconds
    ticks,            \* how often the clock has advanced
    req,              \* the inbound requests, each with its position and locals
    digests,          \* the calls of create_generic_action_hash made so far
    sdkCalls,         \* the calls of handle_with_sdk_complete made so far
    calls,            \* direct calls of PresetTDXData::initialize and create_session
    forwards,         \* the calls of proxy_exchange_request made so far
    signings          \* the calls of sign_exchange_request made so far

vars == <<mainPc, preset, config, agents, sessions, user_to_api_key, lock,
          now, ticks, req, digests, sdkCalls, calls, forwards, signings>>

----------------------------------------------------------------------------
(* Bounds of the model *)

\* number of inbound requests a behaviour holds
MaxReq == 2
\* number of times the clock advances
MaxTicks == 2
\* number of digests computed in a behaviour of SpecHash
MaxHashCalls == 2
\* number of calls of handle_with_sdk_complete in a behaviour of SpecSdk
MaxSdkCalls == 2
\* number of direct calls of initialize and create_session in a behaviour
MaxCalls == 2
\* number of calls of proxy_exchange_request in a behaviour of SpecForward
MaxForwards == 2
\* number of signatures made in a behaviour of SpecSigning
MaxSignings == 2

(* Program constants *)

\* 24 * 60 * 60, the session window of create_session
SessionTtl == 86400

Reqs == 1..MaxReq

Users == {"0xaaa", "0xbbb"}

\* secp256k1 secret keys, as opaque values
EnvKeys == {"k1"}
RandomKeys == {"k1", "k2"}
NoKey == "nokey"

\* the evidence file's bytes, and its bytes after the file was replaced
QuoteBytes == <<4, 0, 2>>
ReplacedQuoteBytes == <<4, 0, 171, 9>>
\* std::fs::read of agent_quote.bin or of the fallback path
QuoteFile(quote_src) ==
    IF quote_src = "replaced" THEN ReplacedQuoteBytes ELSE QuoteBytes
\* the strings SecretKey::from_slice accepts
ValidSecretKeys == EnvKeys \cup RandomKeys

\* by how much the clock can advance in one step
TickSteps == {1, SessionTtl}

----------------------------------------------------------------------------
(* Credentials: the strings carried by X-API-Key *)

Lit(s) == <<"lit", s, 0>>
NoHeader == <<"absent", "", 0>>
TestKey == Lit("test-key")
FixedApiKeys == {TestKey, Lit("prod-key")}

\* generate_api_key: "ak_" + hex(sha256(user_address ":" timestamp)[..16]); the
\* hash is collision-free, so the key is the pair it was computed from.
GenerateApiKeyNoUser(user_address, timestamp) == <<"ak", "", timestamp>>
generate_api_key(user_address, timestamp) == <<"ak", user_address, timestamp>>

----------------------------------------------------------------------------
(* Addresses *)

\* PresetTDXData::public_key_to_address: keccak256 of the public key, last 20 bytes
PresetPublicKeyToAddress(key) == <<"keccak", key>>
\* AgentManager::public_key_to_address: sha256 of the public key, last 20 bytes
AgentPublicKeyToAddress(key) == <<"sha256", key>>
\* PrivateKeySigner::address of the wallet built from a key: the chain address
WalletAddress(key) == <<"keccak", key>>

NoPreset == [set |-> FALSE, tdx_quote |-> <<>>, agent_private_key |-> NoKey,
             agent_address |-> <<"none", NoKey>>]

----------------------------------------------------------------------------
(* Requests *)

NoAction == [present |-> FALSE, type |-> "none", nonce |-> -1, items |-> 0]
NoPayload == [action |-> NoAction, nonce |-> -1, signature |-> <<"nosig", NoKey>>]

\* no JSON body
NoJson == [status |-> "", response |-> <<"", "">>]

IdleReq == [kind |-> "idle", pc |-> "idle",
            user |-> "", siwe_ok |-> FALSE,
            hdr |-> NoHeader, payload |-> NoPayload,
            handler_ran |-> FALSE, key_read |-> NoKey, signed_with |-> NoKey,
            forwarded |-> FALSE, sent |-> NoPayload,
            status |-> 0, body |-> "",
            api_key |-> NoHeader, agent_address |-> <<"none", NoKey>>,
            created_at |-> -1, expires_at |-> -1,
            minted |-> FALSE, overlapped |-> FALSE, at |-> -1,
            info |-> "", info_sent |-> "", up_calls |-> 0, submitted |-> <<>>,
            up_status |-> 0, up_text |-> "", up_result |-> "", json |-> NoJson,
            tdx_quote_hex |-> <<>>, quote_size |-> -1,
            agent_guard |-> FALSE, active_sessions |-> -1,
            authenticated_users |-> -1]

Serving == mainPc = "serving"

\* the slot of the next request to arrive: requests take the slots in order
NextSlot(r) == req[r].kind = "idle" /\ \A o \in Reqs : o < r => req[o].kind # "idle"

Respond(r, fields) == req' = [req EXCEPT ![r] = fields @@ [@ EXCEPT !.pc = "done"]]

----------------------------------------------------------------------------
(* Startup *)

\* initialize with OnceLock::set replaced by an assignment
InitializeOverwrite(quote_src, env_key) ==
    IF quote_src = "none" \/ env_key \notin ValidSecretKeys
    THEN [ok |-> FALSE, data |-> preset]
    ELSE [ok |-> TRUE,
          data |-> [set |-> TRUE, tdx_quote |-> QuoteFile(quote_src),
                    agent_private_key |-> env_key,
                    agent_address |-> <<"keccak", env_key>>]]

\* PresetTDXData::initialize: Ok with the value to publish, or Err
Initialize(quote_src, env_key) ==
    IF quote_src = "none" \/ env_key \notin ValidSecretKeys \/ preset.set
    THEN [ok |-> FALSE, data |-> preset]
    ELSE [ok |-> TRUE,
          data |-> [set |-> TRUE, tdx_quote |-> QuoteFile(quote_src),
                    agent_private_key |-> env_key,
                    agent_address |-> PresetPublicKeyToAddress(env_key)]]

\* create_test_agent registering the agent under every key a deployment configures
AgentManagerNewUnderAnyKey(random_key) ==
    [k \in FixedApiKeys |-> [address |-> AgentPublicKeyToAddress(random_key),
                              private_key |-> random_key]]
\* AgentManager::new and create_test_agent: a random key registered under "test-key"
AgentManagerNew(random_key) ==
    (TestKey :> [address |-> AgentPublicKeyToAddress(random_key),
                 private_key |-> random_key])

\* main(): initialize the preset data, load the configuration, build the state
Main(quote_src, env_key, fixed_api_key, random_key) ==
    /\ mainPc = "start"
    /\ LET init == Initialize(quote_src, env_key) IN
       IF ~init.ok
       THEN /\ mainPc' = "exited"
            /\ UNCHANGED <<preset, config, agents>>
       ELSE /\ mainPc' = "serving"
            /\ preset' = init.data
            /\ config' = [fixed_api_key |-> fixed_api_key]
            /\ agents' = AgentManagerNew(random_key)
    /\ UNCHANGED <<sessions, user_to_api_key, lock, now, ticks, req, digests, sdkCalls, calls, forwards, signings>>

\* the wall clock advances
Tick(d) ==
    /\ Serving
    /\ ticks < MaxTicks
    /\ now' = now + d
    /\ ticks' = ticks + 1
    /\ UNCHANGED <<mainPc, preset, config, agents, sessions, user_to_api_key,
                   lock, req, digests, sdkCalls, calls, forwards, signings>>

----------------------------------------------------------------------------
(* POST /agents/login *)

\* the request arrives and is suspended on validate_siwe_signature
LoginArrive(r, u, ok) ==
    /\ Serving
    /\ NextSlot(r)
    /\ req' = [req EXCEPT ![r] = [IdleReq EXCEPT !.kind = "login", !.pc = "verify",
                                                 !.user = u, !.siwe_ok = ok]]
    /\ UNCHANGED <<mainPc, preset, config, agents, sessions, user_to_api_key,
                   lock, now, ticks, digests, sdkCalls, calls, forwards, signings>>

\* the errors of validate_siwe_signature
SiweErrors == {"Invalid SIWE message format", "Invalid signature hex",
               "SIWE verification failed"}

\* format!("SIWE authentication failed: {}", e)
SiweLoginError(e) ==
    IF e = "Invalid SIWE message format"
    THEN "SIWE authentication failed: Invalid SIWE message format"
    ELSE IF e = "Invalid signature hex"
    THEN "SIWE authentication failed: Invalid signature hex"
    ELSE "SIWE authentication failed: SIWE verification failed"

\* the match on the result of validate_siwe_signature
SiweResultIgnored(ok) == TRUE
SiweResultOk(ok) == ok

\* validate_siwe_signature returns: Err(e) answers 401, Ok goes on to the lock
LoginVerified(r, e) ==
    /\ req[r].kind = "login" /\ req[r].pc = "verify"
    /\ IF SiweResultOk(req[r].siwe_ok)
       THEN req' = [req EXCEPT ![r].pc = "wait_lock"]
       ELSE Respond(r, [status |-> 401, body |-> SiweLoginError(e)])
    /\ UNCHANGED <<mainPc, preset, config, agents, sessions, user_to_api_key,
                   lock, now, ticks, digests, sdkCalls, calls, forwards, signings>>

\* create_session: PresetTDXData::get() is Some
CreateSessionReadyAlways == TRUE
CreateSessionReady == preset.set

\* RwLock::write is granted when nobody holds the lock
WriteLockFreeAlways == TRUE
WriteLockFree == lock = 0

\* AgentSessionManager::get_user_session
GetUserSessionNone(user_address) == [found |-> FALSE, api_key |-> NoHeader]
get_user_session(user_address) ==
    IF user_address \in DOMAIN user_to_api_key
       /\ user_to_api_key[user_address] \in DOMAIN sessions
    THEN [found |-> TRUE, api_key |-> user_to_api_key[user_address]]
    ELSE [found |-> FALSE, api_key |-> NoHeader]

\* another login for the same user is in flight
OtherLoginInFlight(r) ==
    \E o \in Reqs \ {r} : /\ req[o].kind = "login"
                          /\ req[o].user = req[r].user
                          /\ req[o].pc \in {"wait_lock", "create", "insert", "insert_user"}

\* session_manager.write().await, then the existing-session branch
LoginLockAndCheck(r) ==
    /\ req[r].kind = "login" /\ req[r].pc = "wait_lock"
    /\ WriteLockFree
    /\ LET found == get_user_session(req[r].user) IN
       IF found.found
       THEN LET s == sessions[found.api_key] IN
            /\ Respond(r, [status |-> 200, body |-> "Existing session found",
                           api_key |-> s.api_key, agent_address |-> s.agent_address,
                           created_at |-> s.created_at, expires_at |-> s.expires_at,
                           overlapped |-> OtherLoginInFlight(r), at |-> now])
            /\ lock' = 0
       ELSE /\ req' = [req EXCEPT ![r].pc = "create"]
            /\ lock' = r
    /\ UNCHANGED <<mainPc, preset, config, agents, sessions, user_to_api_key,
                   now, ticks, digests, sdkCalls, calls, forwards, signings>>

\* create_session up to the key: the preset data must be set (else 500, and the
\* write guard is released on return), then generate_api_key reads the clock
LoginGenerateKey(r) ==
    /\ req[r].kind = "login" /\ req[r].pc = "create"
    /\ IF ~CreateSessionReady
       THEN /\ Respond(r, [status |-> 500, body |-> "Failed to create agent session"])
            /\ lock' = 0
       ELSE /\ req' = [req EXCEPT ![r].pc = "insert",
                                  ![r].api_key = generate_api_key(req[r].user, now)]
            /\ UNCHANGED lock
    /\ UNCHANGED <<mainPc, preset, config, agents, sessions, user_to_api_key,
                   now, ticks, digests, sdkCalls, calls, forwards, signings>>

\* HashMap::insert
InsertIntoEmptied(map, key, value) == (key :> value)
Insert(map, key, value) == (key :> value) @@ map

\* expires_at: now + (24 * 60 * 60)
ExpiresAtCreation(created_at) == created_at
ExpiresAt(created_at) == created_at + SessionTtl

\* create_session goes on: the clock is read again, the session is built and
\* stored in the map of the sessions
LoginInsert(r) ==
    /\ req[r].kind = "login" /\ req[r].pc = "insert"
    /\ LET session == [user_address |-> req[r].user,
                       agent_address |-> preset.agent_address,
                       api_key |-> req[r].api_key,
                       created_at |-> now,
                       expires_at |-> ExpiresAt(now)]
       IN /\ sessions' = Insert(sessions, session.api_key, session)
          /\ req' = [req EXCEPT ![r].pc = "insert_user",
                                ![r].agent_address = session.agent_address,
                                ![r].created_at = session.created_at,
                                ![r].expires_at = session.expires_at]
    /\ UNCHANGED <<mainPc, preset, config, agents, user_to_api_key, lock,
                   now, ticks, digests, sdkCalls, calls, forwards, signings>>

\* the end of create_session: the credential is stored under the user; then the
\* response is built and the write guard released on return
LoginInsertUser(r) ==
    /\ req[r].kind = "login" /\ req[r].pc = "insert_user"
    /\ user_to_api_key' = Insert(user_to_api_key, req[r].user, req[r].api_key)
    /\ Respond(r, [status |-> 200, body |-> "Agent wallet generated",
                   minted |-> TRUE,
                   overlapped |-> OtherLoginInFlight(r), at |-> now])
    /\ lock' = 0
    /\ UNCHANGED <<mainPc, preset, config, agents, sessions, now, ticks,
                   digests, sdkCalls, calls, forwards, signings>>

----------------------------------------------------------------------------
(* GET /agents/quote *)

\* hex::encode: two hex digits for every byte, the high one first
RECURSIVE hex_encode(_)
hex_encode(bytes) ==
    IF bytes = <<>> THEN <<>>
    ELSE <<Head(bytes) \div 16, Head(bytes) % 16>> \o hex_encode(Tail(bytes))

\* PresetTDXData::create_quote_response
create_quote_response(data) ==
    [tdx_quote_hex |-> hex_encode(data.tdx_quote), agent_address |-> data.agent_address,
     quote_size |-> Len(data.tdx_quote)]

\* agents_quote: the preset data, or 500 when it is not set
AgentsQuote(r) ==
    /\ Serving
    /\ NextSlot(r)
    /\ req' = [req EXCEPT ![r] =
         IF preset.set
         THEN [IdleReq EXCEPT !.kind = "quote", !.pc = "done", !.status = 200,
                              !.body = "quote",
                              !.agent_address = create_quote_response(preset).agent_address,
                              !.tdx_quote_hex = create_quote_response(preset).tdx_quote_hex,
                              !.quote_size = create_quote_response(preset).quote_size]
         ELSE [IdleReq EXCEPT !.kind = "quote", !.pc = "done", !.status = 500]]
    /\ UNCHANGED <<mainPc, preset, config, agents, sessions, user_to_api_key,
                   lock, now, ticks, digests, sdkCalls, calls, forwards, signings>>

----------------------------------------------------------------------------
(* GET /debug/sessions *)

\* RwLock::read is granted when no writer holds the lock
ReadLockFreeAlways == TRUE
ReadLockFree == lock = 0

\* debug_sessions: under the read guard, the sizes of the two maps
DebugSessions(r) ==
    /\ Serving
    /\ NextSlot(r)
    /\ ReadLockFree
    /\ req' = [req EXCEPT ![r] =
         [IdleReq EXCEPT !.kind = "debug", !.pc = "done", !.status = 200,
                         !.active_sessions = Cardinality(DOMAIN sessions),
                         !.authenticated_users = Cardinality(DOMAIN user_to_api_key)]]
    /\ UNCHANGED <<mainPc, preset, config, agents, sessions, user_to_api_key,
                   lock, now, ticks, digests, sdkCalls, calls, forwards, signings>>

----------------------------------------------------------------------------
(* PresetTDXData::initialize and AgentSessionManager::create_session, called *)
(* directly: both are public functions that do not depend on main()          *)

\* a call of PresetTDXData::initialize: the value is published when it is Ok
InitializeCall(quote_src, env_key) ==
    /\ Cardinality(calls) < MaxCalls
    /\ LET init == Initialize(quote_src, env_key) IN
       /\ preset' = IF init.ok THEN init.data ELSE preset
       /\ calls' = calls \cup {[op |-> "initialize", arg |-> <<quote_src, env_key>>,
                                was_set |-> preset.set, ok |-> init.ok]}
    /\ UNCHANGED <<mainPc, config, agents, sessions, user_to_api_key, lock,
                   now, ticks, req, digests, sdkCalls, forwards, signings>>

\* a call of create_session by a holder of the write guard: Err when the preset
\* data is not set, else the session is stored in both maps
CreateSessionCall(user_address) ==
    /\ Cardinality(calls) < MaxCalls
    /\ WriteLockFree
    /\ IF ~CreateSessionReady
       THEN /\ calls' = calls \cup {[op |-> "create_session", arg |-> <<user_address, "">>,
                                     was_set |-> preset.set, ok |-> FALSE]}
            /\ UNCHANGED <<sessions, user_to_api_key>>
       ELSE LET session == [user_address |-> user_address,
                            agent_address |-> preset.agent_address,
                            api_key |-> generate_api_key(user_address, now),
                            created_at |-> now,
                            expires_at |-> ExpiresAt(now)]
            IN /\ sessions' = Insert(sessions, session.api_key, session)
               /\ user_to_api_key' = Insert(user_to_api_key, user_address, session.api_key)
               /\ calls' = calls \cup {[op |-> "create_session",
                                        arg |-> <<user_address, "">>,
                                        was_set |-> preset.set, ok |-> TRUE]}
    /\ UNCHANGED <<mainPc, preset, config, agents, lock, now, ticks, req,
                   digests, sdkCalls, forwards, signings>>

----------------------------------------------------------------------------
(* POST /exchange *)

MasterSig == <<"sig", "master">>
NoSig == <<"nosig", NoKey>>

Action(type, nonce, items) ==
    [present |-> TRUE, type |-> type, nonce |-> nonce, items |-> items]

\* the request bodies a caller sends
Payloads ==
    { [action |-> Action("order", -1, 1), nonce |-> 5, signature |-> NoSig],
      [action |-> Action("order", -1, 0), nonce |-> 5, signature |-> NoSig],
      [action |-> Action("cancel", -1, 1), nonce |-> 5, signature |-> NoSig],
      [action |-> Action("none", -1, 0), nonce |-> 5, signature |-> NoSig],
      [action |-> NoAction, nonce |-> 5, signature |-> NoSig],
      [action |-> Action("approveAgent", 5, 0), nonce |-> 5, signature |-> MasterSig],
      [action |-> Action("approveAgent", 6, 0), nonce |-> 5, signature |-> MasterSig] }

\* a caller-signed envelope: action, nonce and signature are all present
PreSigned(p) == p.action.present /\ p.nonce # -1 /\ p.signature # NoSig
\* the nonce inside the action is the envelope's nonce
NonceConsistent(p) == p.action.nonce = p.nonce

\* the X-API-Key values a caller sends: none, a literal, or an issued credential
Headers == {NoHeader} \cup FixedApiKeys \cup DOMAIN sessions

\* the request arrives at the route layer
ExchangeArrive(r, hdr, p) ==
    /\ Serving
    /\ NextSlot(r)
    /\ req' = [req EXCEPT ![r] = [IdleReq EXCEPT !.kind = "exchange", !.pc = "mw",
                                                 !.hdr = hdr, !.payload = p]]
    /\ UNCHANGED <<mainPc, preset, config, agents, sessions, user_to_api_key,
                   lock, now, ticks, digests, sdkCalls, calls, forwards, signings>>

\* api_key_auth: the header must equal the configured fixed key
ApiKeyAuthAnyKey(hdr) == hdr # NoHeader
api_key_auth(hdr) == hdr # NoHeader /\ hdr = config.fixed_api_key

\* the route layer applies api_key_auth to the paths that start with /exchange
PathOf(kind) == IF kind = "exchange" THEN "/exchange" ELSE "/info"
RouteLayerAuthEverywhere(path) == TRUE
RouteLayerRequiresAuth(path) == path = "/exchange"

\* the middleware of the router: 401, or on to the handler
Middleware(r) ==
    /\ req[r].kind \in {"exchange", "info"} /\ req[r].pc = "mw"
    /\ IF RouteLayerRequiresAuth(PathOf(req[r].kind)) => api_key_auth(req[r].hdr)
       THEN req' = [req EXCEPT ![r].pc = "handler"]
       ELSE Respond(r, [status |-> 401])
    /\ UNCHANGED <<mainPc, preset, config, agents, sessions, user_to_api_key,
                   lock, now, ticks, digests, sdkCalls, calls, forwards, signings>>

\* AgentManager::get_private_key
get_private_key(api_key) ==
    IF api_key \in DOMAIN agents THEN agents[api_key].private_key ELSE NoKey

\* proxy_exchange up to the creation of the ExchangeClient: the key for the
\* credential (the legacy agent for the fixed key, the preset agent otherwise)
ProxyExchangeKey(api_key) ==
    IF api_key = NoHeader THEN [status |-> 401, key |-> NoKey]
    ELSE IF api_key = config.fixed_api_key
    THEN IF get_private_key(api_key) = NoKey
         THEN [status |-> 401, key |-> NoKey]
         ELSE [status |-> 0, key |-> get_private_key(api_key)]
    ELSE IF preset.set
    THEN [status |-> 0, key |-> preset.agent_private_key]
    ELSE [status |-> 500, key |-> NoKey]

\* whether the read guard of the agent manager outlives the block that reads
\* the key: it is a local of that block, taken for the fixed key only
AgentGuardKeptByHandler(api_key) == api_key = config.fixed_api_key
AgentGuardPastBlock(api_key) == FALSE

\* the handler starts: it reads the key (for the fixed key under the read guard
\* of the agent manager) and awaits ExchangeClient::new
ProxyExchangeStart(r) ==
    /\ req[r].kind = "exchange" /\ req[r].pc = "handler"
    /\ LET k == ProxyExchangeKey(req[r].hdr) IN
       IF k.status # 0
       THEN Respond(r, [handler_ran |-> TRUE, status |-> k.status])
       ELSE req' = [req EXCEPT ![r].pc = "client_new", ![r].handler_ran = TRUE,
                               ![r].key_read = k.key,
                               ![r].agent_guard = AgentGuardPastBlock(req[r].hdr)]
    /\ UNCHANGED <<mainPc, preset, config, agents, sessions, user_to_api_key,
                   lock, now, ticks, digests, sdkCalls, calls, forwards, signings>>

\* what the handler does with the action once the client exists: a status to
\* answer at once, or the SDK call to make
Dispatch(p) ==
    IF ~p.action.present THEN [status |-> 400, call |-> "none"]
    ELSE IF p.action.type = "none" THEN [status |-> 400, call |-> "none"]
    ELSE IF p.action.type = "order"
    THEN IF p.action.items = 0 THEN [status |-> 400, call |-> "none"]
         ELSE [status |-> 0, call |-> "order"]
    ELSE IF p.action.type = "cancel"
    THEN IF p.action.items = 0 THEN [status |-> 400, call |-> "none"]
         ELSE [status |-> 0, call |-> "cancel"]
    ELSE [status |-> 400, call |-> "none"]

\* the elements of the orders (or cancels) array of an action, in order
OrdersOf(action) == [i \in 1..action.items |-> <<action.type, i>>]
\* the elements the handler converts and hands to the SDK call: &orders[0]
AllElements(elems) == elems
FirstElement(elems) == <<elems[1]>>

\* the envelope ExchangeClient::order / cancel posts: the first element of the
\* array, the SDK's own nonce, and the signature of the client's wallet
SdkEnvelope(call, key, t) ==
    [action |-> Action(call, -1, 1), nonce |-> t, signature |-> <<"sig", key>>]

\* ExchangeClient::new returns; the action is validated and the SDK call is made
ProxyExchangeDispatch(r, client_ok) ==
    /\ req[r].kind = "exchange" /\ req[r].pc = "client_new"
    /\ LET d == Dispatch(req[r].payload) IN
       IF ~client_ok THEN Respond(r, [status |-> 500])
       ELSE IF d.status # 0 THEN Respond(r, [status |-> d.status])
       ELSE req' = [req EXCEPT ![r].pc = "upstream",
                               ![r].signed_with = req[r].key_read,
                               ![r].forwarded = TRUE,
                               ![r].up_calls = req[r].up_calls + 1,
                               ![r].submitted =
                                   FirstElement(OrdersOf(req[r].payload.action)),
                               ![r].sent = SdkEnvelope(d.call, req[r].key_read, now)]
    /\ UNCHANGED <<mainPc, preset, config, agents, sessions, user_to_api_key,
                   lock, now, ticks, digests, sdkCalls, calls, forwards, signings>>

\* the JSON convert_and_place_order and convert_and_cancel_order build from the
\* ExchangeResponseStatus of the SDK call
ExchangeJsonAlwaysOk(call, res) == [status |-> "ok", response |-> <<"type", call>>]
ExchangeJson(call, res) ==
    IF res = "ok"
    THEN [status |-> "ok", response |-> <<"type", call>>]
    ELSE [status |-> "err", response |-> <<"error_msg", "">>]

\* the upstream venue answers the SDK call (or the call fails)
UpstreamReply(r, res) ==
    /\ req[r].kind = "exchange" /\ req[r].pc = "upstream"
    /\ Respond(r, IF res = "ok"
                  THEN [status |-> 200, body |-> "status:ok", up_result |-> res,
                        json |-> ExchangeJson(req[r].sent.action.type, res)]
                  ELSE IF res = "err"
                  THEN [status |-> 200, body |-> "status:err", up_result |-> res,
                        json |-> ExchangeJson(req[r].sent.action.type, res)]
                  ELSE [status |-> 400, up_result |-> res])
    /\ UNCHANGED <<mainPc, preset, config, agents, sessions, user_to_api_key,
                   lock, now, ticks, digests, sdkCalls, calls, forwards, signings>>

----------------------------------------------------------------------------
(* POST /info *)

\* the JSON values a caller posts
InfoPayloads == {"{type:meta}", "{type:l2Book,coin:BTC}"}

\* what the upstream venue answers: a status and a body text
UpstreamReplies ==
    { [status |-> 200, text |-> "{universe:[]}"],
      [status |-> 200, text |-> "{ universe : [ ] }"],
      [status |-> 200, text |-> "<html>"],
      [status |-> 429, text |-> "rate limited"],
      [status |-> 500, text |-> "internal error"],
      [status |-> -1, text |-> ""] }

\* StatusCode::is_success
is_success(status) == status >= 200 /\ status < 300

\* Response::json: the JSON value of a body text, whatever its spacing, or Err
ParseJson(text) ==
    IF text \in {"{universe:[]}", "{ universe : [ ] }"}
    THEN [ok |-> TRUE, value |-> "{universe:[]}"]
    ELSE [ok |-> FALSE, value |-> ""]

\* the request arrives at the route layer
InfoArrive(r, hdr, payload) ==
    /\ Serving
    /\ NextSlot(r)
    /\ req' = [req EXCEPT ![r] = [IdleReq EXCEPT !.kind = "info", !.pc = "mw",
                                                 !.hdr = hdr, !.info = payload]]
    /\ UNCHANGED <<mainPc, preset, config, agents, sessions, user_to_api_key,
                   lock, now, ticks, digests, sdkCalls, calls, forwards, signings>>

\* proxy_info calls proxy_info_request, which posts the payload to {base}/info
ProxyInfoSend(r) ==
    /\ req[r].kind = "info" /\ req[r].pc = "handler"
    /\ req' = [req EXCEPT ![r].pc = "upstream", ![r].handler_ran = TRUE,
                          ![r].info_sent = req[r].info,
                          ![r].up_calls = req[r].up_calls + 1]
    /\ UNCHANGED <<mainPc, preset, config, agents, sessions, user_to_api_key,
                   lock, now, ticks, digests, sdkCalls, calls, forwards, signings>>

\* proxy_info_request: Ok with the JSON of a success answer, Err otherwise (the
\* send failed, the status is not a success, or the body is not JSON)
proxy_info_request(reply) ==
    IF reply.status = -1 THEN [ok |-> FALSE, value |-> "", err |-> "send"]
    ELSE IF is_success(reply.status)
    THEN IF ParseJson(reply.text).ok
         THEN [ok |-> TRUE, value |-> ParseJson(reply.text).value, err |-> ""]
         ELSE [ok |-> FALSE, value |-> "", err |-> "decode"]
    ELSE [ok |-> FALSE, value |-> "", err |-> "API error"]

\* the upstream answers (or the send fails): proxy_info returns the JSON, or a
\* bare 500
ProxyInfoReply(r, reply) ==
    /\ req[r].kind = "info" /\ req[r].pc = "upstream"
    /\ LET res == proxy_info_request(reply) IN
       Respond(r, [up_status |-> reply.status, up_text |-> reply.text,
                   status |-> IF res.ok THEN 200 ELSE 500,
                   body |-> IF res.ok THEN res.value ELSE ""])
    /\ UNCHANGED <<mainPc, preset, config, agents, sessions, user_to_api_key,
                   lock, now, ticks, digests, sdkCalls, calls, forwards, signings>>

----------------------------------------------------------------------------
(* HyperliquidProxy::proxy_exchange_request *)

\* JSON payloads by the keys they have, with the kind of the action they carry
ForwardPayload(signature, nonce, action, kind) ==
    [signature |-> signature, nonce |-> nonce, action |-> action, kind |-> kind]
ForwardPayloads ==
    {ForwardPayload(s, n, a, "order") : s \in BOOLEAN, n \in BOOLEAN, a \in BOOLEAN}
    \cup {ForwardPayload(TRUE, TRUE, TRUE, "approveAgent")}
NoForwardPayload == ForwardPayload(FALSE, FALSE, FALSE, "")

\* the checks in the order of the code, then the post and what comes back;
\* requests counts the posts to {base}/exchange, sent is the payload posted
ProxyExchangeRequestUnchecked(payload, reply) ==
    [ok |-> FALSE, err |-> "send", requests |-> 1, sent |-> payload, value |-> ""]
proxy_exchange_request(payload, reply) ==
    IF ~payload.signature
    THEN [ok |-> FALSE, err |-> "Exchange request missing signature",
          requests |-> 0, sent |-> NoForwardPayload, value |-> ""]
    ELSE IF ~payload.nonce
    THEN [ok |-> FALSE, err |-> "Exchange request missing nonce",
          requests |-> 0, sent |-> NoForwardPayload, value |-> ""]
    ELSE IF ~payload.action
    THEN [ok |-> FALSE, err |-> "Exchange request missing action",
          requests |-> 0, sent |-> NoForwardPayload, value |-> ""]
    ELSE IF reply.status = -1
    THEN [ok |-> FALSE, err |-> "send", requests |-> 1, sent |-> payload, value |-> ""]
    ELSE IF is_success(reply.status)
    THEN IF ParseJson(reply.text).ok
         THEN [ok |-> TRUE, err |-> "", requests |-> 1, sent |-> payload,
               value |-> ParseJson(reply.text).value]
         ELSE [ok |-> FALSE, err |-> "decode", requests |-> 1, sent |-> payload,
               value |-> ""]
    ELSE [ok |-> FALSE, err |-> "Exchange API error", requests |-> 1,
          sent |-> payload, value |-> ""]

\* one call of proxy_exchange_request, recorded with its input
ForwardCall(payload, reply) ==
    /\ Cardinality(forwards) < MaxForwards
    /\ forwards' = forwards \cup
         {[payload |-> payload, reply |-> reply,
           result |-> proxy_exchange_request(payload, reply)]}
    /\ UNCHANGED <<mainPc, preset, config, agents, sessions, user_to_api_key,
                   lock, now, ticks, req, digests, sdkCalls, calls, signings>>

----------------------------------------------------------------------------
(* The generic action digest of universal_signing.rs *)

\* serde_json values: strings (as their bytes), unsigned numbers, booleans,
\* arrays, and objects as their entries in the order the map yields them
JStr(bytes) == [t |-> "str", s |-> bytes, n |-> 0, xs |-> <<>>]
JUint(n) == [t |-> "uint", s |-> <<>>, n |-> n, xs |-> <<>>]
JBool(b) == [t |-> "bool", s |-> <<>>, n |-> IF b THEN 1 ELSE 0, xs |-> <<>>]
JArr(xs) == [t |-> "arr", s |-> <<>>, n |-> 0, xs |-> xs]
JMap(entries) == [t |-> "map", s |-> <<>>, n |-> 0, xs |-> entries]

\* an integer as k bytes, most significant first
RECURSIVE BigEndian(_, _)
BigEndian(n, k) == IF k = 0 THEN <<>> ELSE Append(BigEndian(n \div 256, k - 1), n % 256)

\* u64::to_be_bytes
ToBeBytesLowByte(n) == BigEndian(n % 256, 8)
to_be_bytes(n) == BigEndian(n, 8)

\* MessagePack: the shortest unsigned encoding, fixstr/str8, fixarray, fixmap
MsgpackUint(n) ==
    IF n < 128 THEN <<n>>
    ELSE IF n < 256 THEN <<204>> \o BigEndian(n, 1)
    ELSE IF n < 65536 THEN <<205>> \o BigEndian(n, 2)
    ELSE <<206>> \o BigEndian(n, 4)

MsgpackStr(bytes) ==
    IF Len(bytes) < 32 THEN <<160 + Len(bytes)>> \o bytes
    ELSE <<217, Len(bytes)>> \o bytes

RECURSIVE Msgpack(_)
RECURSIVE MsgpackAll(_)
RECURSIVE MsgpackEntries(_)
\* rmp_serde::to_vec_named of a serde_json value
Msgpack(v) ==
    IF v.t = "str" THEN MsgpackStr(v.s)
    ELSE IF v.t = "uint" THEN MsgpackUint(v.n)
    ELSE IF v.t = "bool" THEN <<194 + v.n>>
    ELSE IF v.t = "arr" THEN <<144 + Len(v.xs)>> \o MsgpackAll(v.xs)
    ELSE <<128 + Len(v.xs)>> \o MsgpackEntries(v.xs)
MsgpackAll(xs) ==
    IF xs = <<>> THEN <<>> ELSE Msgpack(Head(xs)) \o MsgpackAll(Tail(xs))
MsgpackEntries(es) ==
    IF es = <<>> THEN <<>>
    ELSE MsgpackStr(Head(es)[1]) \o Msgpack(Head(es)[2]) \o MsgpackEntries(Tail(es))

\* ASCII of the field names and tags
S_type == <<116, 121, 112, 101>>
S_order == <<111, 114, 100, 101, 114>>
S_orders == <<111, 114, 100, 101, 114, 115>>
S_cancel == <<99, 97, 110, 99, 101, 108>>
S_cancels == <<99, 97, 110, 99, 101, 108, 115>>
S_a == <<97>>
S_b == <<98>>
S_o == <<111>>

\* the actions that are hashed
HashActions ==
    { JMap(<< <<S_orders, JArr(<<JMap(<< <<S_a, JUint(0)>>, <<S_b, JBool(TRUE)>> >>)>>)>>,
              <<S_type, JStr(S_order)>> >>),
      JMap(<< <<S_cancels, JArr(<<JMap(<< <<S_a, JUint(0)>>, <<S_o, JUint(300)>> >>)>>)>>,
              <<S_type, JStr(S_cancel)>> >>),
      JMap(<<>>) }

\* the nonces: small ones, ones that differ in a higher byte only, a wall-clock one
HashNonces == {0, 1, 255, 256, 65536, 1681923833}

\* Option<&str> vault addresses: none, a 20-byte address, a string that does not parse
NoVault == [present |-> FALSE, valid |-> FALSE, bytes |-> <<>>]
HashVaults ==
    { NoVault,
      [present |-> TRUE, valid |-> TRUE,
       bytes |-> <<18, 52, 86, 120, 144, 18, 52, 86, 120, 144,
                   18, 52, 86, 120, 144, 18, 52, 86, 120, 144>>],
      [present |-> TRUE, valid |-> FALSE, bytes |-> <<>>] }

\* keccak256, collision-free: the digest stands for the bytes hashed
keccak256(bytes) == <<"keccak256", bytes>>

\* the digest with the vault argument dropped
CreateGenericActionHashNoVault(action, timestamp, vault_address) ==
    [ok |-> TRUE, bytes |-> Msgpack(action) \o to_be_bytes(timestamp) \o <<0>>,
     hash |-> keccak256(Msgpack(action) \o to_be_bytes(timestamp) \o <<0>>)]

\* create_generic_action_hash: the bytes that are hashed and the digest, or Err
create_generic_action_hash(action, timestamp, vault_address) ==
    LET bytes == Msgpack(action) \o to_be_bytes(timestamp) IN
    IF vault_address.present
    THEN IF vault_address.valid
         THEN [ok |-> TRUE, bytes |-> bytes \o <<1>> \o vault_address.bytes,
               hash |-> keccak256(bytes \o <<1>> \o vault_address.bytes)]
         ELSE [ok |-> FALSE, bytes |-> <<>>, hash |-> keccak256(<<>>)]
    ELSE [ok |-> TRUE, bytes |-> bytes \o <<0>>, hash |-> keccak256(bytes \o <<0>>)]

\* one call of create_generic_action_hash, recorded with its inputs
HashCall(a, n, v) ==
    /\ Cardinality(digests) < MaxHashCalls
    /\ digests' = digests \cup
         {[action |-> a, nonce |-> n, vault |-> v,
           result |-> create_generic_action_hash(a, n, v)]}
    /\ UNCHANGED <<mainPc, preset, config, agents, sessions, user_to_api_key,
                   lock, now, ticks, req, sdkCalls, calls, forwards, signings>>

----------------------------------------------------------------------------
(* handle_with_sdk_complete of universal_signing.rs *)

\* the actions, the action hashes the SDK computes, and how the venue answers
SdkActions == {Action("order", -1, 1), Action("cancel", -1, 1), Action("approveAgent", 5, 0)}
SdkDigests == {"d1", "d2"}
SdkOutcomes == {"ok", "err", "failed", "no_client"}

\* the network of the ExchangeClient the handler builds
BaseUrlMainnetAlways(is_mainnet) == "Mainnet"
BaseUrlOf(is_mainnet) == IF is_mainnet THEN "Mainnet" ELSE "Testnet"

\* the source token of the connection object: one for the production venue,
\* another for any test venue
NetworkDiscriminator(network) == IF network = "Mainnet" THEN "a" ELSE "b"

\* RequestSigner: the wrapper {source, connectionId} is hashed again and that
\* hash is signed with the identity key; the signature stands for what it signs
sign(identity, digest, network) ==
    <<"sig", identity, keccak256(<<NetworkDiscriminator(network), digest>>)>>
NoSdkSig == <<"nosig", NoKey, keccak256(<<>>)>>

\* the JSON built from the ExchangeResponseStatus
SdkJsonResponse(action_type, res) ==
    IF res = "ok"
    THEN [status |-> "ok", response |-> <<"type", action_type>>]
    ELSE [status |-> "err", response |-> <<"error_msg", "">>]

\* what one call does: Err before anything is signed (no client, unsupported
\* type), Err after the signed request was posted, or Ok with the JSON
handle_with_sdk_complete(action, digest, private_key, is_mainnet, res) ==
    LET network == BaseUrlOf(is_mainnet) IN
    IF res = "no_client" \/ action.type \notin {"order", "cancel"}
    THEN [ok |-> FALSE, network |-> network, signature |-> NoSdkSig, json |-> NoJson]
    ELSE IF res = "failed"
    THEN [ok |-> FALSE, network |-> network,
          signature |-> sign(private_key, digest, network), json |-> NoJson]
    ELSE [ok |-> TRUE, network |-> network,
          signature |-> sign(private_key, digest, network),
          json |-> SdkJsonResponse(action.type, res)]

\* one call of handle_with_sdk_complete, recorded with its inputs
SdkCall(action, digest, private_key, is_mainnet, res) ==
    /\ Cardinality(sdkCalls) < MaxSdkCalls
    /\ sdkCalls' = sdkCalls \cup
         {[action |-> action, digest |-> digest, private_key |-> private_key,
           is_mainnet |-> is_mainnet, upstream |-> res,
           result |-> handle_with_sdk_complete(action, digest, private_key,
                                               is_mainnet, res)]}
    /\ UNCHANGED <<mainPc, preset, config, agents, sessions, user_to_api_key,
                   lock, now, ticks, req, digests, calls, forwards, signings>>

----------------------------------------------------------------------------
(* sign_exchange_request of signing.rs and the two ExchangeSignature types *)

\* 256-bit numbers as their 32 bytes, most significant first
U256(lead, rest) == [i \in 1..32 |-> IF i = 1 THEN lead ELSE rest]
\* the signatures the wallets return: r, s and the recovery parity
RawSignatures ==
    { [r |-> U256(255, 255), s |-> U256(127, 255), parity |-> FALSE],
      [r |-> U256(0, 171), s |-> U256(18, 52), parity |-> TRUE],
      [r |-> U256(9, 0), s |-> U256(0, 0) , parity |-> TRUE],
      [r |-> U256(0, 1), s |-> U256(0, 171), parity |-> FALSE] }

\* the digits of a number without its leading zeros; "0" for zero
RECURSIVE MinimalDigits(_)
MinimalDigits(digits) ==
    IF Len(digits) <= 1 THEN digits
    ELSE IF Head(digits) = 0 THEN MinimalDigits(Tail(digits))
    ELSE digits
\* a formatted number padded with zeros on the left up to the width
ZeroPad(digits, width) ==
    IF Len(digits) >= width THEN digits
    ELSE [i \in 1..(width - Len(digits)) |-> 0] \o digits
\* the ASCII of lower-case hex digits
HexChars(digits) ==
    [i \in 1..Len(digits) |-> IF digits[i] < 10 THEN 48 + digits[i] ELSE 87 + digits[i]]

\* format!("0x{:064x}", n)
FormatHexUnpadded(n) == <<48, 120>> \o HexChars(MinimalDigits(hex_encode(n)))
FormatHex064(n) == <<48, 120>> \o HexChars(ZeroPad(MinimalDigits(hex_encode(n)), 64))

NoTriple == [r |-> <<>>, s |-> <<>>, v |-> 0]

\* ExchangeSignature::from_alloy_signature: v from the parity
from_alloy_signature(sig) ==
    [r |-> FormatHex064(sig.r), s |-> FormatHex064(sig.s),
     v |-> IF sig.parity THEN 28 ELSE 27]

\* the v of the ethers Signature that LocalWallet::sign_hash returns
EthersV(sig) == 27 + (IF sig.parity THEN 1 ELSE 0)
\* ExchangeSignature::from_ethers_signature: v as the wallet set it
from_ethers_signature(sig) ==
    [r |-> FormatHex064(sig.r), s |-> FormatHex064(sig.s), v |-> EthersV(sig)]

\* try_hyperliquid_sdk_signing: Err when the client cannot be built, and Err
\* ("SDK signing extraction not yet implemented") when it can
try_hyperliquid_sdk_signing(private_key, action, nonce, client_ok) ==
    [ok |-> FALSE, scheme |-> "sdk", signed |-> <<>>, signature |-> NoTriple]

\* fallback_simplified_signing: one keccak256 over "{json}:{nonce}", signed
fallback_simplified_signing(private_key, action, nonce, sig) ==
    [ok |-> TRUE, scheme |-> "simplified",
     signed |-> keccak256(<<action, nonce>>),
     signature |-> from_ethers_signature(sig)]

\* sign_exchange_request: the SDK path, and on its Err the fallback
sign_exchange_request(private_key, action, nonce, client_ok, sig) ==
    LET primary == try_hyperliquid_sdk_signing(private_key, action, nonce, client_ok) IN
    IF primary.ok THEN primary
    ELSE fallback_simplified_signing(private_key, action, nonce, sig)

\* one call of sign_exchange_request, recorded with its inputs
SignCall(private_key, action, nonce, client_ok, sig) ==
    /\ Cardinality(signings) < MaxSignings
    /\ signings' = signings \cup
         {[fn |-> "sign_exchange_request", private_key |-> private_key,
           action |-> action, nonce |-> nonce, raw |-> sig,
           primary_ok |-> try_hyperliquid_sdk_signing(private_key, action, nonce,
                                                      client_ok).ok,
           result |-> sign_exchange_request(private_key, action, nonce, client_ok, sig)]}
    /\ UNCHANGED <<mainPc, preset, config, agents, sessions, user_to_api_key,
                   lock, now, ticks, req, digests, sdkCalls, calls, forwards>>

\* one conversion of a signature of the alloy wallet
AlloyConvert(sig) ==
    /\ Cardinality(signings) < MaxSignings
    /\ signings' = signings \cup
         {[fn |-> "from_alloy_signature", private_key |-> NoKey,
           action |-> NoAction, nonce |-> 0, raw |-> sig, primary_ok |-> TRUE,
           result |-> [ok |-> TRUE, scheme |-> "sdk", signed |-> <<>>,
                       signature |-> from_alloy_signature(sig)]]}
    /\ UNCHANGED <<mainPc, preset, config, agents, sessions, user_to_api_key,
                   lock, now, ticks, req, digests, sdkCalls, calls, forwards>>

----------------------------------------------------------------------------

Init ==
    /\ mainPc = "start"
    /\ preset = NoPreset
    /\ config = [fixed_api_key |-> NoHeader]
    /\ agents = <<>>
    /\ sessions = <<>>
    /\ user_to_api_key = <<>>
    /\ lock = 0
    /\ now = 0
    /\ ticks = 0
    /\ req = [r \in Reqs |-> IdleReq]
    /\ digests = {}
    /\ sdkCalls = {}
    /\ calls = {}
    /\ forwards = {}
    /\ signings = {}

Startup ==
    \E q \in {"primary", "fallback", "none"}, k \in EnvKeys \cup {"missing", "malformed"},
       f \in FixedApiKeys, rk \in RandomKeys : Main(q, k, f, rk)

ClockStep == \E d \in TickSteps : Tick(d)

\* logins whose verification, when it fails, fails with one of errs
LoginStepWith(errs) ==
    \/ \E r \in Reqs, u \in Users, ok \in BOOLEAN : LoginArrive(r, u, ok)
    \/ \E r \in Reqs, e \in errs : LoginVerified(r, e)
    \/ \E r \in Reqs : LoginLockAndCheck(r)
    \/ \E r \in Reqs : LoginGenerateKey(r)
    \/ \E r \in Reqs : LoginInsert(r)
    \/ \E r \in Reqs : LoginInsertUser(r)

LoginStep == LoginStepWith(SiweErrors)
\* where the reason of a failure plays no part: the signature does not verify
LoginStepOneError == LoginStepWith({"SIWE verification failed"})

QuoteStep == \E r \in Reqs : AgentsQuote(r)

\* /exchange requests whose bodies are drawn from payloads
ExchangeStepWith(payloads) ==
    \/ \E r \in Reqs, h \in Headers, p \in payloads : ExchangeArrive(r, h, p)
    \/ \E r \in Reqs : Middleware(r)
    \/ \E r \in Reqs : ProxyExchangeStart(r)
    \/ \E r \in Reqs, ok \in BOOLEAN : ProxyExchangeDispatch(r, ok)
    \/ \E r \in Reqs, res \in {"ok", "err", "failed"} : UpstreamReply(r, res)

ExchangeStep == ExchangeStepWith(Payloads)
\* where the body plays no part: an order, and a body without an action
ExchangeStepAtGate ==
    ExchangeStepWith({p \in Payloads : p.action = Action("order", -1, 1) \/ ~p.action.present})

\* orders and cancels with no, one and two elements
BatchPayloads ==
    { [action |-> Action(t, -1, n), nonce |-> 5, signature |-> NoSig] :
        t \in {"order", "cancel"}, n \in 0..2 }
ExchangeStepBatch == ExchangeStepWith(BatchPayloads)

InfoStep ==
    \/ \E r \in Reqs, h \in Headers, p \in InfoPayloads : InfoArrive(r, h, p)
    \/ \E r \in Reqs : Middleware(r)
    \/ \E r \in Reqs : ProxyInfoSend(r)
    \/ \E r \in Reqs, reply \in UpstreamReplies : ProxyInfoReply(r, reply)

DebugStep == \E r \in Reqs : DebugSessions(r)

\* the server with every route
Next ==
    Startup \/ ClockStep \/ LoginStep \/ QuoteStep \/ ExchangeStep \/ InfoStep
    \/ DebugStep
Spec == Init /\ [][Next]_vars

\* the session store alone: logins while the clock advances
NextLogin == Startup \/ ClockStep \/ LoginStepOneError
SpecLogin == Init /\ [][NextLogin]_vars

\* the market-data route alone
NextInfo == Startup \/ InfoStep
SpecInfo == Init /\ [][NextInfo]_vars

\* the trading route alone
NextExchange == Startup \/ ExchangeStep
SpecExchange == Init /\ [][NextExchange]_vars

\* the login route alone, with the clock standing still
NextAuth == Startup \/ LoginStep
SpecAuth == Init /\ [][NextAuth]_vars

DirectCallStep ==
    \/ \E q \in {"primary", "fallback", "none", "replaced"},
          k \in ValidSecretKeys \cup {"missing", "malformed"} : InitializeCall(q, k)
    \/ \E u \in Users : CreateSessionCall(u)

\* the write-once preset data: startup, direct calls, and GET /agents/quote
NextInit == Startup \/ DirectCallStep \/ QuoteStep
SpecInit == Init /\ [][NextInit]_vars

\* the market-data route where the server's own steps are always taken in the
\* end; nothing obliges the upstream to answer, and Client::new() sets no timeout
SpecInfoLive ==
    /\ SpecInfo
    /\ \A r \in Reqs : WF_vars(Middleware(r)) /\ WF_vars(ProxyInfoSend(r))

\* the session store and its readers: logins and debug queries
NextStore == Startup \/ LoginStepOneError \/ DebugStep
SpecStore == Init /\ [][NextStore]_vars

\* the credential gate: logins that issue credentials, and /exchange requests
NextBatch == Startup \/ ExchangeStepBatch
SpecBatch == Init /\ [][NextBatch]_vars

NextGate == Startup \/ LoginStepOneError \/ ExchangeStepAtGate
SpecGate == Init /\ [][NextGate]_vars

\* the action digest alone, on inputs drawn from HashActions, HashNonces, HashVaults
NextHash == \E a \in HashActions, n \in HashNonces, v \in HashVaults : HashCall(a, n, v)
SpecHash == Init /\ [][NextHash]_vars

\* the SDK handler alone, called with any key on either network
NextSdk ==
    \E a \in SdkActions, d \in SdkDigests, k \in RandomKeys, m \in BOOLEAN,
       res \in SdkOutcomes : SdkCall(a, d, k, m, res)
SpecSdk == Init /\ [][NextSdk]_vars

\* proxy_exchange_request alone, on any payload and any answer of the upstream
NextForward ==
    \E p \in ForwardPayloads, reply \in UpstreamReplies : ForwardCall(p, reply)
SpecForward == Init /\ [][NextForward]_vars

\* the signing functions alone, for orders and cancels
NextSigning ==
    \/ \E k \in RandomKeys, a \in {Action("order", -1, 1), Action("cancel", -1, 1)},
          n \in {0, 1681923833}, ok \in BOOLEAN, sig \in RawSignatures :
            SignCall(k, a, n, ok, sig)
    \/ \E sig \in RawSignatures : AlloyConvert(sig)
SpecSigning == Init /\ [][NextSigning]_vars

----------------------------------------------------------------------------
(* Properties *)

LoginOk(r) == req[r].kind = "login" /\ req[r].pc = "done" /\ req[r].status = 200
ExchangeDone(r) == req[r].kind = "exchange" /\ req[r].pc = "done"
\* the request got as far as the validation of its action
Dispatched(r) == ExchangeDone(r) /\ req[r].handler_ran /\ req[r].status \notin {401, 500}
SessionsOf(u) == {k \in DOMAIN sessions : sessions[k].user_address = u}

\* C1 (idempotent login): two successful logins for the same user return the same
\* api_key and the same created_at, and a login that succeeds after another one
\* for that user has succeeded mints nothing and leaves both maps of the session
\* store as they were.
C1_SameSession ==
    \A r1, r2 \in Reqs :
        LoginOk(r1) /\ LoginOk(r2) /\ req[r1].user = req[r2].user
        => /\ req[r1].api_key = req[r2].api_key
           /\ req[r1].created_at = req[r2].created_at
C1_LaterLoginStep ==
    \A r \in Reqs :
        /\ req[r].kind = "login" /\ req[r].pc # "done"
        /\ req'[r].pc = "done" /\ req'[r].status = 200
        /\ \E o \in Reqs : LoginOk(o) /\ req[o].user = req[r].user
        => /\ ~req'[r].minted
           /\ sessions' = sessions
           /\ user_to_api_key' = user_to_api_key
\* C1: both parts, in every state and at every step
C1_IdempotentLogin == [](C1_SameSession) /\ [][C1_LaterLoginStep]_vars

\* a user logged in, the clock advanced, and the user logged in again
C1_Witness ==
    \E r1, r2 \in Reqs :
        /\ LoginOk(r1) /\ LoginOk(r2) /\ req[r1].user = req[r2].user
        /\ req[r1].minted /\ ~req[r2].minted
        /\ req[r2].at > req[r1].at

\* C2 (one session per user under concurrency): however the logins for one user
\* interleave, the store holds at most one session of that user; once a login for
\* the user has succeeded it holds exactly one, exactly one of the logins created
\* it, and every successful login returned its credential.
C2_OneSessionPerUser ==
    \A u \in Users :
        LET done == {r \in Reqs : LoginOk(r) /\ req[r].user = u} IN
        /\ Cardinality(SessionsOf(u)) <= 1
        /\ done # {}
           => /\ Cardinality(SessionsOf(u)) = 1
              /\ Cardinality({r \in done : req[r].minted}) = 1
              /\ \A r \in done : req[r].api_key \in SessionsOf(u)

\* two logins for one user were past verification at the same time, and both
\* have succeeded
C2_Witness ==
    \E r1, r2 \in Reqs :
        /\ r1 # r2 /\ LoginOk(r1) /\ LoginOk(r2) /\ req[r1].user = req[r2].user
        /\ req[r1].overlapped

\* C3 (missing-credential gate): an /exchange request whose X-API-Key header is
\* absent or is not the configured credential never reaches the handler: no
\* agent key is read for it, nothing is signed, nothing is sent upstream, and its
\* answer is 401.
C3_CredentialGate ==
    \A r \in Reqs :
        req[r].kind = "exchange"
        /\ (req[r].hdr = NoHeader \/ req[r].hdr # config.fixed_api_key)
        => /\ req[r].pc \in {"mw", "done"}
           /\ ~req[r].handler_ran
           /\ req[r].key_read = NoKey
           /\ req[r].signed_with = NoKey
           /\ ~req[r].forwarded
           /\ req[r].pc = "done" => req[r].status = 401

\* an order sent without the header, and one sent with a credential that is not
\* the configured one, have been answered
C3_Witness ==
    \E r1, r2 \in Reqs :
        /\ ExchangeDone(r1) /\ req[r1].hdr = NoHeader
        /\ ExchangeDone(r2) /\ req[r2].hdr \notin {NoHeader, config.fixed_api_key}
        /\ req[r2].payload.action.type = "order" /\ req[r2].payload.action.items = 1

\* C4 (a credential issued by login authorizes trading): an /exchange request
\* that carries a credential of the session store passes the gate and is
\* processed with the key of the agent that session is bound to.
C4_IssuedCredentialAuthorizes ==
    \A r \in Reqs :
        ExchangeDone(r) /\ req[r].hdr \in DOMAIN sessions
        => /\ req[r].handler_ran
           /\ req[r].status # 401
           /\ WalletAddress(req[r].key_read) = sessions[req[r].hdr].agent_address

\* C5 (nonce-consistency gate): a pre-signed envelope whose top-level nonce is
\* not the nonce inside its action is answered with the body "Nonce mismatch
\* between request body and action structure" and nothing is sent upstream.
C5_NonceGate ==
    \A r \in Reqs :
        Dispatched(r) /\ PreSigned(req[r].payload) /\ ~NonceConsistent(req[r].payload)
        => /\ req[r].body = "Nonce mismatch between request body and action structure"
           /\ ~req[r].forwarded

\* C6 (pre-signed actions are forwarded, never re-signed): a pre-signed
\* approveAgent envelope with consistent nonces is sent upstream as it was
\* received, and the server signs nothing for it.
C6_PreSignedForwarded ==
    \A r \in Reqs :
        /\ Dispatched(r) /\ PreSigned(req[r].payload) /\ NonceConsistent(req[r].payload)
        /\ req[r].payload.action.type = "approveAgent"
        => /\ req[r].forwarded
           /\ req[r].sent = req[r].payload
           /\ req[r].signed_with = NoKey

\* C7 (the attested identity is the signing identity): the agent address that
\* GET /agents/quote returns is the address of the key that signs an /exchange
\* action.
C7_QuoteIsSigner ==
    \A q, r \in Reqs :
        /\ req[q].kind = "quote" /\ req[q].status = 200
        /\ req[r].kind = "exchange" /\ req[r].signed_with # NoKey
        => req[q].agent_address = WalletAddress(req[r].signed_with)

\* C8 (credential uniqueness): every credential of the store maps to the session
\* that carries it, no two users hold the same credential, and the credential a
\* login returned still maps to a session of that user.
C8_CredentialUnique ==
    /\ \A k \in DOMAIN sessions : sessions[k].api_key = k
    /\ \A u1, u2 \in DOMAIN user_to_api_key :
           u1 # u2 => user_to_api_key[u1] # user_to_api_key[u2]
    /\ \A r \in Reqs :
           LoginOk(r) => /\ req[r].api_key \in DOMAIN sessions
                         /\ sessions[req[r].api_key].user_address = req[r].user

\* two users hold sessions whose credentials were generated in the same second
C8_Witness ==
    \E k1, k2 \in DOMAIN sessions :
        /\ sessions[k1].user_address # sessions[k2].user_address
        /\ k1[3] = k2[3]

\* C9 (a login after expiry creates a new session): a successful login never
\* returns an existing session whose expires_at is earlier than the time of the
\* login.
C9_ExpiredSessionReplaced ==
    \A r \in Reqs :
        LoginOk(r) /\ ~req[r].minted => req[r].expires_at >= req[r].at

\* C10 (nonce sensitivity of the digest): with no vault address, one action and
\* two different nonces give different byte strings to hash, hence different
\* digests.
C10_NonceSensitive ==
    \A x, y \in digests :
        /\ x.action = y.action /\ x.nonce # y.nonce
        /\ ~x.vault.present /\ ~y.vault.present
        => /\ x.result.ok /\ y.result.ok
           /\ x.result.bytes # y.result.bytes
           /\ x.result.hash # y.result.hash

\* an action was hashed with nonces 0 and 256, which agree in their low byte
C10_Witness ==
    \E x, y \in digests :
        /\ x.action = y.action /\ x.action # JMap(<<>>)
        /\ ~x.vault.present /\ ~y.vault.present
        /\ x.nonce = 0 /\ y.nonce = 256

\* C11 (vault sensitivity of the digest): for one action and one nonce, the digest
\* computed with a valid 20-byte vault address differs from the digest computed
\* with none: the bytes hashed end in the flag 1 and the address in the first
\* case, and in the flag 0 in the second.
C11_VaultSensitive ==
    \A x, y \in digests :
        /\ x.action = y.action /\ x.nonce = y.nonce
        /\ x.vault.present /\ x.vault.valid /\ ~y.vault.present
        => /\ x.result.ok /\ y.result.ok
           /\ x.result.hash # y.result.hash
           /\ Len(x.result.bytes) = Len(y.result.bytes) + 20
           /\ x.result.bytes[Len(y.result.bytes)] = 1
           /\ y.result.bytes[Len(y.result.bytes)] = 0

\* an order was hashed with one nonce, once with a vault address and once without
C11_Witness ==
    \E x, y \in digests :
        /\ x.action = y.action /\ x.action # JMap(<<>>) /\ x.nonce = y.nonce
        /\ x.vault.present /\ x.vault.valid /\ Len(x.vault.bytes) = 20
        /\ ~y.vault.present

\* a call of handle_with_sdk_complete that signed a request
SdkSigned(x) == x.result.signature # NoSdkSig

InfoDone(r) == req[r].kind = "info" /\ req[r].pc = "done"

\* C13 (market-data passthrough): an /info request needs no credential, the JSON
\* posted upstream is the JSON received, and when the upstream answers with a
\* success status and a JSON body the caller receives 200 with that JSON value.
C13_InfoPassthrough ==
    \A r \in Reqs :
        req[r].kind = "info"
        => /\ req[r].status # 401
           /\ req[r].pc \in {"upstream", "done"}
              => req[r].handler_ran /\ req[r].info_sent = req[r].info
           /\ /\ req[r].pc = "done"
              /\ is_success(req[r].up_status) /\ ParseJson(req[r].up_text).ok
              => /\ req[r].status = 200
                 /\ req[r].body = ParseJson(req[r].up_text).value

\* an /info request without a credential was answered with the upstream's JSON
C13_Witness ==
    \E r \in Reqs :
        /\ InfoDone(r) /\ req[r].hdr = NoHeader
        /\ req[r].up_status = 200 /\ req[r].status = 200
        /\ req[r].body = "{universe:[]}"

\* C14 (upstream errors surfaced with detail): when the upstream answers an
\* /info request with a non-success status, the answer to the caller is an error
\* whose body holds the upstream's error text, and the upstream was called once.
C14_UpstreamErrorDetail ==
    \A r \in Reqs :
        InfoDone(r) /\ req[r].up_status # -1 /\ ~is_success(req[r].up_status)
        => /\ req[r].status >= 500
           /\ req[r].body = req[r].up_text
           /\ req[r].up_calls = 1

\* C15 (uniform response shape): an authorized /exchange request that obtained a
\* result from the upstream is answered with a JSON object of the two fields
\* status and response, where status is "ok" exactly when the upstream reported
\* success and "err" exactly when it reported an error, for orders and cancels
\* alike.
C15_UniformShape ==
    \A r \in Reqs :
        ExchangeDone(r) /\ req[r].up_result \in {"ok", "err"}
        => /\ req[r].status = 200
           /\ DOMAIN req[r].json = {"status", "response"}
           /\ req[r].json.status = "ok" <=> req[r].up_result = "ok"
           /\ req[r].json.status = "err" <=> req[r].up_result = "err"

\* an order was answered after the upstream reported an error, and a cancel
\* after it reported success
C15_Witness ==
    \E r1, r2 \in Reqs :
        /\ ExchangeDone(r1) /\ req[r1].sent.action.type = "order"
        /\ req[r1].up_result = "err"
        /\ ExchangeDone(r2) /\ req[r2].sent.action.type = "cancel"
        /\ req[r2].up_result = "ok"

\* the action of an authorized request did not pass the handler's validation
FailedValidation(r) ==
    /\ Dispatched(r)
    /\ Dispatch(req[r].payload).status # 0

\* C16 (structured validation errors): an authorized /exchange request whose
\* action fails validation is answered with a 4xx status and the JSON body
\* {status: "err", response: <the check that failed>}, and nothing is sent
\* upstream.
C16_StructuredValidationError ==
    \A r \in Reqs :
        FailedValidation(r)
        => /\ req[r].status >= 400 /\ req[r].status < 500
           /\ ~req[r].forwarded
           /\ req[r].json.status = "err"
           /\ req[r].json.response # NoJson.response

LoginFailed(r) == req[r].kind = "login" /\ req[r].pc = "done" /\ req[r].status = 401

\* C17 (authentication failures do not leak the reason): every login that fails
\* verification is answered 401 with one and the same body, whatever made it
\* fail.
C17_NoReasonLeak ==
    /\ \A r \in Reqs :
           req[r].kind = "login" /\ req[r].pc = "done" /\ ~req[r].siwe_ok
           => req[r].status = 401
    /\ \A r1, r2 \in Reqs :
           LoginFailed(r1) /\ LoginFailed(r2) => req[r1].body = req[r2].body

\* C18 (no session without a verified statement): a login whose verification
\* fails is answered with the authentication error and never gets past
\* verification, the step that answers it leaves both maps of the session store
\* as they were, and every stored session belongs to a user whose login was
\* verified.
C18_VerifiedOnly ==
    /\ \A r \in Reqs :
           req[r].kind = "login" /\ ~req[r].siwe_ok
           => /\ req[r].pc \in {"verify", "done"}
              /\ ~req[r].minted
              /\ req[r].pc = "done" => req[r].status = 401
    /\ \A k \in DOMAIN sessions :
           \E r \in Reqs : /\ req[r].kind = "login" /\ req[r].siwe_ok
                           /\ req[r].user = sessions[k].user_address
C18_FailedLoginStep ==
    \A r \in Reqs :
        req[r].kind = "login" /\ ~req[r].siwe_ok /\ req'[r] # req[r]
        => /\ sessions' = sessions
           /\ user_to_api_key' = user_to_api_key
\* C18: both parts, in every state and at every step
C18_NoSessionWithoutVerification == [](C18_VerifiedOnly) /\ [][C18_FailedLoginStep]_vars

\* a login for a user failed verification while another user holds a session
C18_Witness ==
    \E r1, r2 \in Reqs :
        /\ LoginFailed(r1) /\ LoginOk(r2) /\ req[r2].minted
        /\ req[r1].user # req[r2].user
        /\ DOMAIN user_to_api_key = {req[r2].user}

\* C19 (no sessions before initialization): the store holds a session only if
\* the preset identity and evidence are set, and then the session is bound to
\* that identity; create_session called while they are not set returns Err and
\* no step taken while they are not set changes either map; and a request is
\* only ever accepted by a server whose startup initialization succeeded.
C19_SessionsNeedPreset ==
    /\ DOMAIN sessions # {} \/ DOMAIN user_to_api_key # {} => preset.set
    /\ \A k \in DOMAIN sessions : sessions[k].agent_address = preset.agent_address
    /\ \A c \in calls : c.op = "create_session" /\ ~c.was_set => ~c.ok
    /\ \A r \in Reqs : req[r].kind # "idle" => Serving /\ preset.set
C19_StepWithoutPreset ==
    ~preset.set /\ calls' # calls /\ preset' = preset
    => sessions' = sessions /\ user_to_api_key' = user_to_api_key
\* C19: both parts, in every state and at every step
C19_NoSessionBeforeInit == [](C19_SessionsNeedPreset) /\ [][C19_StepWithoutPreset]_vars

\* create_session was refused before the preset data was set, and a session was
\* created after
C19_Witness ==
    /\ \E c \in calls : c.op = "create_session" /\ ~c.was_set /\ ~c.ok
    /\ DOMAIN sessions # {}

QuoteOk(r) == req[r].kind = "quote" /\ req[r].pc = "done" /\ req[r].status = 200

\* C20 (write-once identity and evidence): the preset data is either not set or
\* holds the evidence, the key and the address of that key together; once set it
\* never changes, and a call of initialize made after it was set fails; every
\* answer of GET /agents/quote carries the hex of the same evidence, the same
\* agent address, and a size that is the evidence's length in bytes.
C20_PublishedTogether ==
    /\ ~preset.set => preset = NoPreset
    /\ preset.set => /\ preset.tdx_quote \in {QuoteBytes, ReplacedQuoteBytes}
                     /\ preset.agent_private_key \in ValidSecretKeys
                     /\ preset.agent_address = WalletAddress(preset.agent_private_key)
    /\ \A c \in calls : c.op = "initialize" /\ c.was_set => ~c.ok
    /\ \A r \in Reqs :
           QuoteOk(r) => /\ req[r].tdx_quote_hex = hex_encode(preset.tdx_quote)
                         /\ req[r].agent_address = preset.agent_address
                         /\ req[r].quote_size = Len(preset.tdx_quote)
                         /\ Len(req[r].tdx_quote_hex) = 2 * req[r].quote_size
    /\ \A r1, r2 \in Reqs :
           QuoteOk(r1) /\ QuoteOk(r2)
           => /\ req[r1].tdx_quote_hex = req[r2].tdx_quote_hex
              /\ req[r1].agent_address = req[r2].agent_address
              /\ req[r1].quote_size = req[r2].quote_size
C20_SetOnce == preset.set => preset' = preset
\* C20: both parts, in every state and at every step
C20_WriteOnce == [](C20_PublishedTogether) /\ [][C20_SetOnce]_vars

\* initialize was called with another evidence file and another key after the
\* data was set, and two quotes have been served
C20_Witness ==
    /\ \E c \in calls : /\ c.op = "initialize" /\ c.was_set
                         /\ c.arg[1] = "replaced" /\ c.arg[2] \in ValidSecretKeys
                         /\ c.arg[2] # preset.agent_private_key
    /\ \E r1, r2 \in Reqs : r1 # r2 /\ QuoteOk(r1) /\ QuoteOk(r2)

\* C21 (per-request timeout): every /info request that has arrived is answered
\* in the end, even if the upstream never answers.
C21_EventuallyAnswered ==
    \A r \in Reqs : (req[r].kind = "info") ~> (req[r].pc = "done")

\* C22 (sessions are immutable and never evicted): no step changes or removes a
\* stored session or a stored user-to-credential entry; the maps only grow.
C22_SessionsKept ==
    /\ \A k \in DOMAIN sessions :
           k \in DOMAIN sessions' /\ sessions'[k] = sessions[k]
    /\ \A u \in DOMAIN user_to_api_key :
           u \in DOMAIN user_to_api_key' /\ user_to_api_key'[u] = user_to_api_key[u]
C22_SessionsImmutable == [][C22_SessionsKept]_vars

\* a user logged in again after the session's window had passed, and the stored
\* session is still the one of the first login
C22_Witness ==
    \E r1, r2 \in Reqs :
        /\ LoginOk(r1) /\ req[r1].minted
        /\ LoginOk(r2) /\ ~req[r2].minted /\ req[r2].user = req[r1].user
        /\ req[r2].at > req[r1].expires_at
        /\ sessions[req[r1].api_key].created_at = req[r1].created_at

\* C25 (fixed 24-hour window): every stored session expires 86400 seconds after
\* its creation and is bound to the address of the preset identity, and a login
\* that returns an existing session reports the expires_at the first login
\* reported.
C25_FixedWindow ==
    /\ \A k \in DOMAIN sessions :
           /\ sessions[k].expires_at = sessions[k].created_at + 86400
           /\ sessions[k].agent_address = preset.agent_address
    /\ \A r \in Reqs :
           LoginOk(r) => req[r].expires_at = req[r].created_at + 86400
    /\ \A r1, r2 \in Reqs :
           LoginOk(r1) /\ LoginOk(r2) /\ req[r1].user = req[r2].user
           => req[r1].expires_at = req[r2].expires_at

\* a session was created after the clock had advanced, and its user logged in
\* again later
C25_Witness ==
    \E r1, r2 \in Reqs :
        /\ LoginOk(r1) /\ req[r1].minted /\ req[r1].created_at > 0
        /\ LoginOk(r2) /\ ~req[r2].minted /\ req[r2].user = req[r1].user
        /\ req[r2].at > req[r1].at

\* the positions at which a request is suspended on the network: statement
\* verification, ExchangeClient::new, the upstream call
OnNetwork(r) == req[r].pc \in {"verify", "client_new", "upstream"}

\* C23 (no lock is held across a network call): a request that is suspended on
\* statement verification or on an upstream call holds neither the write lock of
\* the session store nor a guard of the agent manager, and whoever holds the
\* write lock is inside create_session, where nothing waits on the network.
C23_NoLockAcrossNetwork ==
    /\ \A r \in Reqs : OnNetwork(r) => lock # r /\ ~req[r].agent_guard
    /\ lock # 0 => req[lock].pc \in {"create", "insert", "insert_user"}

\* a login holds the write lock and stores its session while an /exchange
\* request that was authorized with the fixed key waits for the upstream
C23_Witness ==
    \E r1, r2 \in Reqs :
        /\ req[r1].kind = "exchange" /\ req[r1].pc = "upstream"
        /\ req[r1].hdr = config.fixed_api_key
        /\ lock = r2 /\ req[r2].pc = "insert_user"

\* C24 (session-store writes are atomic to readers): whenever a reader can take
\* the read lock the two maps have the same size, every user-to-credential entry
\* points to a stored session of that user with that credential, and every
\* stored session is reachable from its user; /debug/sessions always reports the
\* same number of sessions and of users.
C24_AtomicToReaders ==
    /\ ReadLockFree
       => /\ Cardinality(DOMAIN sessions) = Cardinality(DOMAIN user_to_api_key)
          /\ \A u \in DOMAIN user_to_api_key :
                 /\ user_to_api_key[u] \in DOMAIN sessions
                 /\ sessions[user_to_api_key[u]].user_address = u
                 /\ sessions[user_to_api_key[u]].api_key = user_to_api_key[u]
          /\ \A k \in DOMAIN sessions :
                 /\ sessions[k].user_address \in DOMAIN user_to_api_key
                 /\ user_to_api_key[sessions[k].user_address] = k
    /\ \A r \in Reqs :
           req[r].kind = "debug"
           => req[r].active_sessions = req[r].authenticated_users

\* /debug/sessions was answered after a session had been stored
C24_Witness ==
    \E r1, r2 \in Reqs :
        /\ LoginOk(r1) /\ req[r1].minted
        /\ req[r2].kind = "debug" /\ req[r2].pc = "done"
        /\ req[r2].active_sessions = 1 /\ req[r2].authenticated_users = 1

\* C26 (presence checks before forwarding): proxy_exchange_request posts nothing
\* and returns an error when the payload lacks a signature, a nonce or an action,
\* the first missing one in that order naming the error; with all three present
\* it posts the payload once, as it is.
C26_PresenceChecks ==
    \A c \in forwards :
        LET p == c.payload
            missing == ~p.signature \/ ~p.nonce \/ ~p.action
        IN /\ missing => ~c.result.ok /\ c.result.requests = 0
           /\ ~p.signature => c.result.err = "Exchange request missing signature"
           /\ p.signature /\ ~p.nonce => c.result.err = "Exchange request missing nonce"
           /\ p.signature /\ p.nonce /\ ~p.action
              => c.result.err = "Exchange request missing action"
           /\ ~missing => c.result.requests = 1 /\ c.result.sent = p

\* a payload without signature and nonce was refused, and a complete one was
\* posted and answered
C26_Witness ==
    \E c1, c2 \in forwards :
        /\ ~c1.payload.signature /\ ~c1.payload.nonce /\ c1.payload.action
        /\ c2.payload.signature /\ c2.payload.nonce /\ c2.payload.action
        /\ c2.result.ok

\* C27 (no silent signing downgrade): when the SDK path of sign_exchange_request
\* fails, the call returns the failure, and never a signature made by the
\* simplified single-hash scheme.
C27_NoSilentDowngrade ==
    \A c \in signings :
        c.fn = "sign_exchange_request" /\ ~c.primary_ok
        => ~c.result.ok /\ c.result.scheme # "simplified"

IsHexDigit(ch) == ch \in 48..57 \/ ch \in 97..102
IsHex64(str) ==
    /\ Len(str) = 66
    /\ str[1] = 48 /\ str[2] = 120
    /\ \A i \in 3..66 : IsHexDigit(str[i])

\* C28 (signature triple shape): every signature returned for an order or a
\* cancel, with any nonce, has v = 28 when the recovery parity is set and v = 27
\* when it is not, and r and s written as "0x" followed by 64 hex digits.
C28_TripleShape ==
    \A c \in signings :
        c.result.ok
        => /\ c.result.signature.v \in {27, 28}
           /\ c.result.signature.v = 28 <=> c.raw.parity
           /\ IsHex64(c.result.signature.r)
           /\ IsHex64(c.result.signature.s)

\* a cancel was signed with a signature whose r starts with a zero byte and
\* whose parity is set, and an order with one whose parity is not set
C28_Witness ==
    \E c1, c2 \in signings :
        /\ c1.fn = "sign_exchange_request" /\ c1.result.ok
        /\ c1.action.type = "cancel" /\ c1.raw.r[1] = 0 /\ c1.raw.parity
        /\ c2.fn = "sign_exchange_request" /\ c2.result.ok
        /\ c2.action.type = "order" /\ ~c2.raw.parity /\ c2.nonce > 0

\* the handler of r got as far as the conversion of the action
Converted(r) ==
    /\ req[r].kind = "exchange" /\ req[r].handler_ran
    /\ req[r].pc \in {"upstream", "done"}
    /\ req[r].key_read # NoKey /\ req[r].status # 500

\* C29 (one submission per order request): an authorized /exchange order or
\* cancel whose array is not empty leads to exactly one upstream submission,
\* built from the first element of the array and from no other; an empty array
\* is answered 400 without a submission.
C29_OneSubmission ==
    \A r \in Reqs :
        /\ req[r].kind = "exchange" => req[r].up_calls <= 1
        /\ Converted(r) /\ req[r].payload.action.type \in {"order", "cancel"}
           => IF req[r].payload.action.items = 0
              THEN /\ req[r].status = 400
                   /\ req[r].up_calls = 0 /\ req[r].submitted = <<>>
                   /\ ~req[r].forwarded
              ELSE /\ req[r].up_calls = 1 /\ req[r].forwarded
                   /\ req[r].submitted = << <<req[r].payload.action.type, 1>> >>
                   /\ req[r].sent.action.type = req[r].payload.action.type

\* an order with two elements was submitted once, and a cancel with an empty
\* array was refused
C29_Witness ==
    \E r1, r2 \in Reqs :
        /\ Converted(r1) /\ req[r1].pc = "done" /\ req[r1].status = 200
        /\ req[r1].payload.action = Action("order", -1, 2)
        /\ req[r1].up_calls = 1 /\ Len(req[r1].submitted) = 1
        /\ Converted(r2) /\ req[r2].pc = "done" /\ req[r2].status = 400
        /\ req[r2].payload.action = Action("cancel", -1, 0)

\* C30 (bootstrap credential bound only under "test-key"): when the configured
\* fixed credential is not "test-key", every /exchange request that passes the
\* credential gate is answered 401 by the handler, and no action is signed or
\* submitted.
C30_BootstrapOnlyTestKey ==
    Serving /\ config.fixed_api_key # TestKey
    => \A r \in Reqs :
         req[r].kind = "exchange"
         => /\ req[r].pc \notin {"client_new", "upstream"}
            /\ req[r].signed_with = NoKey /\ ~req[r].forwarded
            /\ req[r].up_calls = 0
            /\ req[r].pc = "done" /\ req[r].handler_ran => req[r].status = 401

\* with "prod-key" configured, a request carrying it passed the gate and was
\* answered 401 by the handler
C30_Witness ==
    /\ Serving /\ config.fixed_api_key = Lit("prod-key")
    /\ \E r \in Reqs :
         /\ req[r].kind = "exchange" /\ req[r].pc = "done"
         /\ req[r].hdr = Lit("prod-key") /\ req[r].handler_ran
         /\ req[r].payload.action.type = "order"
         /\ req[r].status = 401

====
